---- MODULE Spec2Model ----
(***************************************************************************)
(* apply_dashboard_updates.py: a script that reads                         *)
(* imports/ui/Dashboard.jsx, applies four re.sub changes in sequence to    *)
(* the text held in `content`, writes the result back to the same path and *)
(* prints a fixed report.                                                  *)
(*                                                                         *)
(* Text is modelled as a sequence of fragments.  Every fragment stands for *)
(* one literal piece of the strings in the script; the anchors and the     *)
(* templates are the fragment sequences that spell them.  The four regular *)
(* expressions are literals (every metacharacter in them is escaped, or is *)
(* a '{' '}' that Python reads literally), so a match is an occurrence of  *)
(* the anchor's fragment sequence.                                         *)
(***************************************************************************)
EXTENDS Integers, Sequences, FiniteSets, TLC

(* Bounds of the model. *)
MaxChunks == 2
MaxRuns == 2

VARIABLES disk, linesep, content, pc, out, run, raised,
          old, trace, found, writes, matchedBefore

vars == <<disk, linesep, content, pc, out, run, raised,
          old, trace, found, writes, matchedBefore>>

(***************************************************************************)
(* The fragments.                                                          *)
(*   initHead  "  const [referenceCurrency, setReferenceCurrency] = useState("  *)
(*   initOld   "getDefaultCurrency());"                                    *)
(*   initNew   "() => {\n    // Load saved ... getDefaultCurrency();\n  });"  *)
(*   initTail  " // Set based on user role and preferences"                *)
(*   effHead   "  // Update currency when user changes\n ... const         *)
(*              defaultCurrency = getDefaultCurrency();\n"                 *)
(*   effOld    "      setReferenceCurrency(defaultCurrency);\n    }\n      *)
(*              }, [user]);"                                               *)
(*   effNew    "      const savedCurrency = ... }, [referenceCurrency]);"  *)
(*   selClose  "            </select>\n          </div>\n"                 *)
(*   divClose  "        </div>\n      </div>\n\n"                          *)
(*   marker    "      {/* Statistics Cards */}"                            *)
(*   toggle    "\n\n          {/* Relationship Manager Toggle ... )}\n"    *)
(*   statsDiv  "\n      <div style={{"                                     *)
(*   wrapOpen  "\n      {!(isRelationshipManager && showAllProducts) && (" *)
(*   wrapClose ")}"  (the delimiter the manual step asks for)              *)
(*   x         any other text without a line break                         *)
(***************************************************************************)
Fragments ==
  {"initHead", "initOld", "initNew", "initTail", "effHead", "effOld", "effNew",
   "selClose", "divClose", "marker", "toggle", "statsDiv", "wrapOpen",
   "wrapClose", "x"}

(* The fragments that contain a line break. *)
MultiLine ==
  {"initNew", "effHead", "effOld", "effNew", "selClose", "divClose", "toggle",
   "statsDiv", "wrapOpen"}

(* Change 1 *)
old_currency_init == <<"initHead", "initOld", "initTail">>

(* Variant: a template that keeps the old initialisation line. *)
new_currency_init_keep(g) == <<"initHead", "initOld", "initTail", "initNew">>

new_currency_init(g) == <<"initHead", "initNew", "initTail">>

(* Change 2 *)
old_currency_effect == <<"effHead", "effOld">>

new_currency_effect(g) == <<"effHead", "effNew">>

(* Change 3: the pattern is one group, so \1 is the whole match. *)
toggle_insert_point == <<"selClose", "divClose", "marker">>

(* Variant: a template that does not re-emit the marker line. *)
toggle_component_nomarker(g) == g \o <<"toggle", "divClose">>

toggle_component(g) == g \o <<"toggle", "divClose", "marker">>

(* Change 4 *)
stats_start == <<"marker", "statsDiv">>

(* Variant: a template that also closes the wrapper. *)
stats_start_replacement_closed(g) == <<"marker", "wrapOpen", "statsDiv", "wrapClose">>

stats_start_replacement(g) == <<"marker", "wrapOpen", "statsDiv">>

Changes == 1..4

Anchor(k) ==
  CASE k = 1 -> old_currency_init
    [] k = 2 -> old_currency_effect
    [] k = 3 -> toggle_insert_point
    [] k = 4 -> stats_start

(* The template of change k expanded for a match whose text is g. *)
Template(k, g) ==
  CASE k = 1 -> new_currency_init(g)
    [] k = 2 -> new_currency_effect(g)
    [] k = 3 -> toggle_component(g)
    [] k = 4 -> stats_start_replacement(g)

(***************************************************************************)
(* re.sub(pattern, repl, string) with count = 0.                           *)
(***************************************************************************)

(* Variant: an optional pattern, which matches the empty string where the *)
(* literal does not occur.                                                *)
MatchLen_optional(pat, text, i) ==
  IF i + Len(pat) - 1 <= Len(text) /\ SubSeq(text, i, i + Len(pat) - 1) = pat
  THEN Len(pat) ELSE 0

(* The length of the match of the literal pat at position i, -1 if none. *)
MatchLen(pat, text, i) ==
  IF i + Len(pat) - 1 <= Len(text) /\ SubSeq(text, i, i + Len(pat) - 1) = pat
  THEN Len(pat) ELSE -1

(* The matches the scan finds from position i on: leftmost first, not      *)
(* overlapping; after an empty match the scan moves on by one position.    *)
RECURSIVE scan(_, _, _)
scan(pat, text, i) ==
  IF i > Len(text) + 1 THEN <<>>
  ELSE LET n == MatchLen(pat, text, i) IN
       IF n < 0 THEN scan(pat, text, i + 1)
       ELSE IF n = 0 THEN <<[start |-> i, len |-> 0]>> \o scan(pat, text, i + 1)
       ELSE <<[start |-> i, len |-> n]>> \o scan(pat, text, i + n)

(* Variant: count=1, only the first match is replaced. *)
finditer_first(pat, text) ==
  LET ms == scan(pat, text, 1) IN IF ms = <<>> THEN <<>> ELSE <<Head(ms)>>

finditer(pat, text) == scan(pat, text, 1)

(* The text from position i on with the matches ms replaced by template k. *)
RECURSIVE expand(_, _, _, _)
expand(k, text, ms, i) ==
  IF ms = <<>> THEN SubSeq(text, i, Len(text))
  ELSE LET m == Head(ms) IN
       SubSeq(text, i, m.start - 1)
         \o Template(k, SubSeq(text, m.start, m.start + m.len - 1))
         \o expand(k, text, Tail(ms), m.start + m.len)

(* Variant: a substitution that yields nothing when there is no match. *)
re_sub_strict(k, text) ==
  LET ms == finditer(Anchor(k), text) IN
  IF ms = <<>> THEN <<>> ELSE expand(k, text, ms, 1)

re_sub(k, text) == expand(k, text, finditer(Anchor(k), text), 1)

(***************************************************************************)
(* The file.  It is opened in text mode with the default newline handling: *)
(* reading turns every line ending into "\n", writing turns every "\n"     *)
(* into the platform's os.linesep.  A file is its text and the line ending *)
(* its line breaks are stored with.                                        *)
(***************************************************************************)
HasLineBreak(text) == \E i \in 1..Len(text) : text[i] \in MultiLine

File(text, eol) == [text |-> text, eol |-> IF HasLineBreak(text) THEN eol ELSE "lf"]

(* f.read() *)
Decode(file) == file.text

(* f.write(content) *)
Encode(text) == File(text, linesep)

(* The texts a run may find in the file: up to MaxChunks pieces, each one  *)
(* fragment or one whole anchor.                                           *)
Chunks == {<<f>> : f \in Fragments} \cup {Anchor(k) : k \in Changes}

RECURSIVE Texts(_)
Texts(n) ==
  IF n = 0 THEN {<<>>}
  ELSE LET shorter == Texts(n - 1) IN
       shorter \cup {t \o c : t \in shorter, c \in Chunks}

(* The lines the script prints. *)
Report ==
  << "Dashboard updates applied successfully!",
     "Changes made:",
     "1. Currency persistence with localStorage",
     "2. Added RM toggle component",
     "3. Added conditional wrapper for stats cards (opening)",
     "",
     "MANUAL STEP REQUIRED:",
     "   Find the closing </div> for the stats cards section",
     "   (around line 975-980, after all LiquidGlassCard components)",
     "   Add ')}' after the closing </div>" >>

(***************************************************************************)
(* State.                                                                  *)
(*   disk     the file imports/ui/Dashboard.jsx                            *)
(*   linesep  os.linesep of the platform                                   *)
(*   content  the script's variable `content`                              *)
(*   pc       the statement the script is at                               *)
(*   out      the lines printed so far by this run                         *)
(*   run      the number of the run                                        *)
(*   raised   the change whose re.sub call raised, 0 if none               *)
(* History of the current run:                                             *)
(*   old      the file as it was when the run started                      *)
(*   trace    the values `content` has taken: the text read, then the      *)
(*            result of each change                                        *)
(*   found    per change applied, the matches its re.sub replaced          *)
(*   writes   the number of times the run wrote the file                   *)
(* History of the earlier runs:                                            *)
(*   matchedBefore  the changes that matched in an earlier run             *)
(***************************************************************************)
Init ==
  /\ linesep \in {"lf", "crlf"}
  /\ \E t \in Texts(MaxChunks), e \in {"lf", "crlf"} : disk = File(t, e)
  /\ content = <<>>
  /\ pc = "read"
  /\ out = <<>>
  /\ run = 1
  /\ raised = 0
  /\ old = disk
  /\ trace = <<>>
  /\ found = <<>>
  /\ writes = 0
  /\ matchedBefore = {}

PcOf(k) == CASE k = 1 -> "ch1" [] k = 2 -> "ch2" [] k = 3 -> "ch3" [] k = 4 -> "ch4"

After(k) == IF k = 4 THEN "write" ELSE PcOf(k + 1)

(* Lines 9-10: open the file and read it. *)
Read ==
  /\ pc = "read"
  /\ content' = Decode(disk)
  /\ trace' = <<content'>>
  /\ pc' = "ch1"
  /\ UNCHANGED <<disk, linesep, out, run, raised, old, found, writes, matchedBefore>>

(* Lines 9-10: open or read raises (no such file, not UTF-8); the script   *)
(* ends with the traceback.                                                *)
ReadFails ==
  /\ pc = "read"
  /\ pc' = "failed"
  /\ UNCHANGED <<disk, linesep, content, out, run, raised, old, trace, found,
                 writes, matchedBefore>>

(* content = re.sub(anchor k, template k, buf) *)
Step(k, buf) ==
  /\ pc = PcOf(k)
  /\ content' = re_sub(k, buf)
  /\ found' = Append(found, finditer(Anchor(k), buf))
  /\ trace' = Append(trace, content')
  /\ pc' = After(k)
  /\ UNCHANGED <<disk, linesep, out, run, raised, old, writes, matchedBefore>>

(* The same, saving the file after the change. *)
StepAndSave(k, buf) ==
  /\ pc = PcOf(k)
  /\ content' = re_sub(k, buf)
  /\ found' = Append(found, finditer(Anchor(k), buf))
  /\ trace' = Append(trace, content')
  /\ pc' = After(k)
  /\ disk' = Encode(content')
  /\ UNCHANGED <<linesep, out, run, raised, old, writes, matchedBefore>>

(* Line 20 *)
Change1 == Step(1, content)

(* Variant: Change 2 applied to the text read instead of content. *)
Change2_stale == Step(2, trace[1])

(* Line 44 *)
Change2 == Step(2, content)

(* Variant: Change 3 followed by a save of the file. *)
Change3_saving == StepAndSave(3, content)

(* Line 94 *)
Change3 == Step(3, content)

(* Line 100 *)
Change4 == Step(4, content)

(* Lines 20, 44, 94, 100: the re.sub call of change k raises.  re.sub      *)
(* compiles its pattern, and its template when it holds a backslash, when  *)
(* it is called, so an re.error of change k is raised at that call; the    *)
(* exception is not caught and the script ends with the traceback.         *)
(* Variant: the buffer is written out when the call raises. *)
SubRaises_flush ==
  \E k \in Changes :
    /\ pc = PcOf(k)
    /\ raised' = k
    /\ pc' = "failed"
    /\ disk' = Encode(content)
    /\ UNCHANGED <<linesep, content, out, run, old, trace, found, writes,
                   matchedBefore>>

SubRaises ==
  \E k \in Changes :
    /\ pc = PcOf(k)
    /\ raised' = k
    /\ pc' = "failed"
    /\ UNCHANGED <<disk, linesep, content, out, run, old, trace, found, writes,
                   matchedBefore>>

(* Lines 108-109: open the file for writing and write content. *)
WriteFile ==
  /\ pc = "write"
  /\ disk' = Encode(content)
  /\ writes' = writes + 1
  /\ pc' = "report"
  /\ UNCHANGED <<linesep, content, out, run, raised, old, trace, found, matchedBefore>>

(* Lines 111-120: the ten print calls. *)
PrintReport ==
  /\ pc = "report"
  /\ out' = out \o Report
  /\ pc' = "done"
  /\ UNCHANGED <<disk, linesep, content, run, raised, old, trace, found, writes,
                 matchedBefore>>

(* The script is started again on the file it has written. *)
Rerun ==
  /\ pc = "done"
  /\ run < MaxRuns
  /\ run' = run + 1
  /\ matchedBefore' = matchedBefore \cup {k \in Changes : found[k] # <<>>}
  /\ content' = <<>>
  /\ pc' = "read"
  /\ out' = <<>>
  /\ old' = disk
  /\ trace' = <<>>
  /\ found' = <<>>
  /\ writes' = 0
  /\ UNCHANGED <<disk, linesep, raised>>

Next ==
  \/ Read
  \/ ReadFails
  \/ Change1
  \/ Change2
  \/ Change3
  \/ Change4
  \/ SubRaises
  \/ WriteFile
  \/ PrintReport
  \/ Rerun

Spec == Init /\ [][Next]_vars

(***************************************************************************)
(* Vocabulary of the properties.                                           *)
(***************************************************************************)

(* The positions at which pat occurs in text. *)
Occurs(pat, text) ==
  {i \in 1..(Len(text) - Len(pat) + 1) : SubSeq(text, i, i + Len(pat) - 1) = pat}

(* How often the fragment f occurs in text. *)
Count(f, text) == Cardinality({i \in 1..Len(text) : text[i] = f})

Lines(o) == {o[i] : i \in 1..Len(o)}

(* The changes that have been applied in this run. *)
Applied == 1..Len(found)

(* The fragment only the template of change k brings in. *)
NewFragment(k) ==
  CASE k = 1 -> "initNew" [] k = 2 -> "effNew" [] k = 3 -> "toggle" [] k = 4 -> "wrapOpen"

(* The line of the report that lists change k as made. *)
ReportLine(k) ==
  CASE k = 1 -> "1. Currency persistence with localStorage"
    [] k = 2 -> "1. Currency persistence with localStorage"
    [] k = 3 -> "2. Added RM toggle component"
    [] k = 4 -> "3. Added conditional wrapper for stats cards (opening)"

(* C1: feed-forward. The buffer after change k is change k applied to the  *)
(* buffer after change k-1 (the text read, for k = 1), the variable        *)
(* content holds the latest of them, and the file written is the buffer    *)
(* after Change 4.                                                         *)
C1_FeedForward ==
  /\ \A k \in Applied : trace[k + 1] = re_sub(k, trace[k])
  /\ trace # <<>> => content = trace[Len(trace)]
  /\ writes = 1 => Len(trace) = 5 /\ disk = Encode(trace[5])

(* A finished run in which Change 4 matched at a place that Change 3 made. *)
C1_Witness ==
  /\ pc = "done"
  /\ found[3] # <<>>
  /\ found[4] # <<>>
  /\ found[4] # finditer(stats_start, trace[1])

(* C2: a change whose anchor does not occur in the buffer it is given      *)
(* replaces nothing and leaves the buffer as it is; a run fails only       *)
(* because the read failed or an re.sub call raised, and a run that has    *)
(* reached the write has applied all four changes.                         *)
C2_MissingAnchorNoEffect ==
  /\ \A k \in Applied :
       Occurs(Anchor(k), trace[k]) = {} => found[k] = <<>> /\ trace[k + 1] = trace[k]
  /\ pc = "failed" => (trace = <<>> \/ raised # 0)
  /\ pc \in {"write", "report", "done"} => Len(found) = 4

(* A finished run in which the anchor of Change 1 was missing and a later  *)
(* change still matched.                                                   *)
C2_Witness ==
  /\ pc = "done"
  /\ Occurs(old_currency_init, trace[1]) = {}
  /\ \E k \in 2..4 : trace[k + 1] # trace[k]

(* C3 as claimed: a change whose buffer holds two or more occurrences of   *)
(* its anchor leaves the buffer unchanged.                                 *)
C3_AmbiguousLeavesBuffer ==
  \A k \in Applied :
    Cardinality(Occurs(Anchor(k), trace[k])) >= 2 => trace[k + 1] = trace[k]

(* C3 amended: a change whose buffer holds two or more occurrences of its  *)
(* anchor replaces every one of them: it makes as many substitutions as    *)
(* there are occurrences and adds its template's new fragment that often.  *)
C3_AllOccurrencesReplaced ==
  \A k \in Applied :
    LET n == Cardinality(Occurs(Anchor(k), trace[k])) IN
    n >= 2 =>
      /\ Len(found[k]) = n
      /\ Count(NewFragment(k), trace[k + 1]) = Count(NewFragment(k), trace[k]) + n

(* A change has been applied to a buffer with two occurrences of its anchor. *)
C3_Witness ==
  \E k \in Applied : Cardinality(Occurs(Anchor(k), trace[k])) >= 2

(* C4: in a finished run, a change the report lists as made has matched.   *)
C4_ReportFaithful ==
  pc = "done" =>
    \A k \in Changes : ReportLine(k) \in Lines(out) => found[k] # <<>>

(* C5 as claimed: in a later run, every change that matched in an earlier  *)
(* run leaves the buffer unchanged.                                        *)
C5_RerunIdempotent ==
  \A k \in Applied : k \in matchedBefore => trace[k + 1] = trace[k]

(* C5 amended: in a later run, Changes 1, 2 and 4 leave the buffer         *)
(* unchanged if they matched in an earlier run; Change 3 is not            *)
(* idempotent: if it matched in an earlier run it matches again.           *)
C5_RerunIdempotentExceptToggle ==
  \A k \in Applied :
    k \in matchedBefore =>
      IF k = 3 THEN found[k] # <<>> /\ trace[k + 1] # trace[k]
      ELSE found[k] = <<>> /\ trace[k + 1] = trace[k]

(* A second run has applied all changes after a first run in which Change  *)
(* 3 and another change matched.                                           *)
C5_Witness ==
  /\ run >= 2
  /\ Len(found) = 4
  /\ 3 \in matchedBefore
  /\ matchedBefore \ {3} # {}

(* C6: a run writes the file at most once; until it does the file is as it *)
(* was when the run started, also when the run has failed; the write comes *)
(* after all four changes and stores the whole final buffer.               *)
C6_NoWriteMidRun ==
  /\ writes <= 1
  /\ writes = 0 => disk = old
  /\ writes = 1 => Len(found) = 4 /\ disk = Encode(content) /\ content = trace[5]
  /\ pc = "failed" => disk = old

(* A finished run that changed the file. *)
C6_Witness ==
  /\ pc = "done"
  /\ writes = 1
  /\ disk.text # old.text

(* C7: every match a change replaced is a non-empty span that spells the   *)
(* change's anchor, and the empty buffer stays empty.                      *)
C7_NoZeroLengthSubstitution ==
  /\ \A k \in Applied : \A j \in 1..Len(found[k]) :
       LET m == found[k][j] IN
       /\ m.len > 0
       /\ SubSeq(trace[k], m.start, m.start + m.len - 1) = Anchor(k)
  /\ \A k \in Applied : trace[1] = <<>> => trace[k + 1] = <<>>

(* All four changes have been applied and one of them substituted. *)
C7_Witness ==
  /\ Len(found) = 4
  /\ pc = "write"
  /\ \E k \in Changes : found[k] # <<>>

C9_ClosingLeftToManualStep ==
  /\ writes = 1 =>
       /\ Count("wrapClose", disk.text) = Count("wrapClose", trace[1])
       /\ Count("wrapOpen", disk.text) = Count("wrapOpen", trace[1]) + Len(found[4])
  /\ pc = "done" => "MANUAL STEP REQUIRED:" \in Lines(out)
  /\ "MANUAL STEP REQUIRED:" \in Lines(out) => writes = 1

(* A finished run in which Change 4 wrapped the stats cards. *)
C9_Witness ==
  /\ pc = "done"
  /\ found[4] # <<>>
  /\ "MANUAL STEP REQUIRED:" \in Lines(out)

(* C10: on every buffer of the run, Change 3 then Change 4 gives the same  *)
(* text as Change 4 then Change 3, and Change 4 finds as many matches      *)
(* after Change 3 as before it; so the buffer after Change 4 is what the   *)
(* other order would have made of the buffer before Change 3.              *)
C10_ToggleAndWrapCommute ==
  /\ \A i \in 1..Len(trace) :
       LET b == trace[i] IN
       /\ re_sub(4, re_sub(3, b)) = re_sub(3, re_sub(4, b))
       /\ Len(finditer(stats_start, re_sub(3, b))) = Len(finditer(stats_start, b))
  /\ Len(trace) = 5 =>
       /\ trace[5] = re_sub(3, re_sub(4, trace[3]))
       /\ Len(found[4]) = Len(finditer(stats_start, trace[3]))

(* Changes 3 and 4 have both matched, on the same marker line. *)
C10_Witness ==
  /\ Len(trace) = 5
  /\ found[3] # <<>>
  /\ found[4] # <<>>
  /\ \E i \in Occurs(toggle_insert_point, trace[3]) :
       (i + 2) \in Occurs(stats_start, trace[3])

====
